---- MODULE Spec2Model ----
(***************************************************************************)
(* Redfish URI Validator: the validation engine of redfish-uri-validator.py *)
(* (run_test, build_reference_path, scan_object).                          *)
(*                                                                         *)
(* Strings whose characters matter (identifiers, path templates, Details)  *)
(* are sequences of one-character strings.  Property names are only ever   *)
(* compared for equality by the code and are TLA+ strings.                 *)
(***************************************************************************)
EXTENDS Integers, Sequences, FiniteSets, TLC

VARIABLES
    response,   \* the resource collection returned by RMCOBJ.get()
    paths,      \* the keys of openapi_data["paths"], in document order
    pc,         \* position of run_test: "loop", "resolve", "classify", "done", "overflow"
    i,          \* index of the item the for loop of run_test is at (1-based)
    results,    \* the results structure of run_test
    uri,        \* build_reference_path: the uri argument of the current frame
    path,       \* build_reference_path: the path argument of the current frame
    depth,      \* build_reference_path: number of frames below the current one
    calls,      \* number of times run_test has called build_reference_path
    tpl,        \* matcher runs: the path template under test
    ident,      \* matcher runs: the identifier under test
    mres        \* matcher runs: "none" before the match, then TRUE or FALSE

vars == <<response, paths, pc, i, results, uri, path, depth, calls, tpl, ident, mres>>

(***************************************************************************)
(* Bounds of the model.                                                    *)
(***************************************************************************)
\* longest resource collection explored
MaxLen == 3
\* longest generated identifier of the matcher runs
MaxIdLen == 4

\* The interpreter's recursion limit, scaled to the model: larger than any
\* chain of distinct identifiers a collection of MaxLen resources can hold.
RecursionLimit == MaxLen + 1

(***************************************************************************)
(* String constants.                                                       *)
(***************************************************************************)
ServiceRoot == <<"/","r","e","d","f","i","s","h","/","v","1","/">>
ServiceRootNoSlash == <<"/","r","e","d","f","i","s","h","/","v","1">>
IdA == <<"/","r","e","d","f","i","s","h","/","v","1","/","A">>
IdB == <<"/","r","e","d","f","i","s","h","/","v","1","/","B">>
IdT == <<"/","r","e","d","f","i","s","h","/","v","1","/","A","/","T">>
TplRoot == <<"/","r","e","d","f","i","s","h","/","v","1","/">>
TplId == <<"/","r","e","d","f","i","s","h","/","v","1","/","{","I","d","}">>
TplChassis == <<"/","r","e","d","f","i","s","h","/","v","1","/","C","h","a","s","s","i","s","/","{","C","h","a","s","s","i","s","I","d","}">>
IdChassis1 == <<"/","r","e","d","f","i","s","h","/","v","1","/","C","h","a","s","s","i","s","/","1">>
IdThermal == <<"/","r","e","d","f","i","s","h","/","v","1","/","C","h","a","s","s","i","s","/","1","/","T","h","e","r","m","a","l">>
IdChassisSlash == <<"/","r","e","d","f","i","s","h","/","v","1","/","C","h","a","s","s","i","s","/">>
PassStr == <<"P","a","s","s">>
OemPrefix == <<"O","E","M"," ","r","e","s","o","u","r","c","e"," ","'">>
FailPrefix == <<"R","e","s","o","u","r","c","e"," ","'">>
DetailsSuffix == <<"'"," ","w","a","s"," ","n","o","t"," ","f","o","u","n","d"," ","i","n"," ","t","h","e"," ","O","p","e","n","A","P","I"," ","s","p","e","c","i","f","i","c","a","t","i","o","n">>

(***************************************************************************)
(* Path Matcher: lines 98-104 of run_test.                                 *)
(*   uri_pattern = "^" + re.sub( "{[A-Za-z0-9]+}", "[^/]+", uri ) + "$"    *)
(*   re.match( uri_pattern, serv_uri ) is not None                         *)
(* Templates are over the alphabet Alnum \cup {"/", ".", "{", "}"}: of     *)
(* these only "." is a regular-expression metacharacter once the           *)
(* placeholders are substituted (a brace that opens no {m,n} quantifier is *)
(* a literal).                                                             *)
(***************************************************************************)
Alnum == {"A","B","C","D","E","F","G","H","I","J","K","L","M","N","O","P","Q",
          "R","S","T","U","V","W","X","Y","Z",
          "a","b","c","d","e","f","g","h","i","j","k","l","m","n","o","p","q",
          "r","s","t","u","v","w","x","y","z",
          "0","1","2","3","4","5","6","7","8","9"}

Wildcard == <<"[","^","/","]","+">>

\* End of the maximal run of alphanumerics starting at position k of t.
RECURSIVE AlnumRunEnd(_, _)
AlnumRunEnd(t, k) ==
    IF k <= Len(t) /\ t[k] \in Alnum THEN AlnumRunEnd(t, k + 1) ELSE k

\* Position of the "}" closing a match of {[A-Za-z0-9]+} that starts at k, or 0.
PlaceholderEnd(t, k) ==
    IF t[k] # "{" THEN 0
    ELSE LET e == AlnumRunEnd(t, k + 1) IN
         IF e > k + 1 /\ e <= Len(t) /\ t[e] = "}" THEN e ELSE 0

\* re.sub( "{[A-Za-z0-9]+}", "[^/]+", t ): leftmost non-overlapping matches.
RECURSIVE ReSub(_, _)
ReSub(t, k) ==
    IF k > Len(t) THEN <<>>
    ELSE IF PlaceholderEnd(t, k) # 0
         THEN Wildcard \o ReSub(t, PlaceholderEnd(t, k) + 1)
         ELSE <<t[k]>> \o ReSub(t, k + 1)

\* The compiled form of the pattern text: "[^/]+" is a one-or-more
\* negated class, "." matches any character but a newline, every other
\* character of the alphabet is a literal.
RECURSIVE Compile(_, _)
Compile(p, k) ==
    IF k > Len(p) THEN <<>>
    ELSE IF k + 4 <= Len(p) /\ SubSeq(p, k, k + 4) = Wildcard
         THEN <<[k |-> "wild", c |-> ""]>> \o Compile(p, k + 5)
         ELSE IF p[k] = "."
              THEN <<[k |-> "any", c |-> ""]>> \o Compile(p, k + 1)
              ELSE <<[k |-> "lit", c |-> p[k]]>> \o Compile(p, k + 1)

\* re.match of the compiled tokens toks[k..] followed by "$" against s[j..].
\* "$" matches at the end of the string and just before a newline that ends it.
RECURSIVE ReMatch(_, _, _, _)
ReMatch(toks, k, s, j) ==
    IF k > Len(toks)
    THEN j = Len(s) + 1 \/ (j = Len(s) /\ s[j] = "\n")
    ELSE
       CASE toks[k].k = "lit" ->
              j <= Len(s) /\ s[j] = toks[k].c /\ ReMatch(toks, k + 1, s, j + 1)
         [] toks[k].k = "any" ->
              j <= Len(s) /\ s[j] # "\n" /\ ReMatch(toks, k + 1, s, j + 1)
         [] toks[k].k = "wild" ->
              \E e \in j..Len(s) :
                  /\ \A m \in j..e : s[m] # "/"
                  /\ ReMatch(toks, k + 1, s, e + 1)

\* Lines 100-101: does the template match the identifier?
UriPatternMatches(template, serv_uri) ==
    ReMatch(Compile(ReSub(template, 1), 1), 1, serv_uri, 1)

\* Lines 95-104: the loop over openapi_data["paths"], leaving at the first match.
RECURSIVE PathMatchFrom(_, _, _)
PathMatchFrom(serv_uri, pathSeq, k) ==
    IF k > Len(pathSeq) THEN FALSE
    ELSE IF UriPatternMatches(pathSeq[k], serv_uri) THEN TRUE
    ELSE PathMatchFrom(serv_uri, pathSeq, k + 1)

path_match(serv_uri, pathSeq) == PathMatchFrom(serv_uri, pathSeq, 1)

(***************************************************************************)
(* Resources.  A JSON value is a record [t, s, kids]:                      *)
(*   t = "str"  : a string, its characters in s                            *)
(*   t = "null" : null                                                     *)
(*   t = "dict" : a mapping; kids is the sequence of its items in          *)
(*                iteration order, each [p |-> property, v |-> value]      *)
(*   t = "list" : an array; kids is the sequence of its elements, each     *)
(*                [p |-> "", v |-> value]                                  *)
(***************************************************************************)
Str(chars) == [t |-> "str", s |-> chars, kids |-> <<>>]
Null == [t |-> "null", s |-> <<>>, kids |-> <<>>]
Dict(items) == [t |-> "dict", s |-> <<>>, kids |-> items]
List(elems) == [t |-> "list", s |-> <<>>, kids |-> [k \in DOMAIN elems |-> [p |-> "", v |-> elems[k]]]]
KV(property, value) == [p |-> property, v |-> value]
Ref(id) == Dict(<<KV("@odata.id", Str(id))>>)

\* item.get( "@odata.id", None ): the value of the property, None (Null)
\* when the mapping has no such property.
RECURSIVE GetFrom(_, _, _)
GetFrom(items, property, k) ==
    IF k > Len(items) THEN Null
    ELSE IF items[k].p = property THEN items[k].v
    ELSE GetFrom(items, property, k + 1)

Get(resource, property) == GetFrom(resource.kids, property, 1)

(***************************************************************************)
(* scan_object( uri, resource, partial_path ), lines 176-220.  The result  *)
(* is the returned boolean together with the contents of the partial_path  *)
(* list when the call returns (the list is mutated in place by the code).  *)
(***************************************************************************)
\* Faulty variant of skipped_properties: "Links" is missing from the list.
skipped_properties_NoLinks == {"PoweredBy", "CooledBy", "RelatedItem", "OriginOfCondition",
                               "MaintenanceWindowResource", "RedundancySet", "OriginResources"}

\* Line 197.
skipped_properties == {"Links", "PoweredBy", "CooledBy", "RelatedItem", "OriginOfCondition",
                       "MaintenanceWindowResource", "RedundancySet", "OriginResources"}

\* del partial_path[-1]
DelLast(seq) == SubSeq(seq, 1, Len(seq) - 1)

RECURSIVE ScanItems(_, _, _, _)
RECURSIVE ScanArray(_, _, _, _)

\* Lines 212-215: the loop over the elements of an array value.
ScanArray(target, elems, k, partial_path) ==
    IF k > Len(elems) THEN [found |-> FALSE, path |-> partial_path]
    ELSE IF elems[k].v.t = "dict"
         THEN LET r == ScanItems(target, elems[k].v.kids, 1, partial_path) IN
              IF r.found THEN r ELSE ScanArray(target, elems, k + 1, r.path)
         ELSE ScanArray(target, elems, k + 1, partial_path)

\* Lines 190-220: the loop over resource.items() from its k-th item on.
ScanItems(target, items, k, partial_path) ==
    IF k > Len(items) THEN [found |-> FALSE, path |-> partial_path]
    ELSE LET property == items[k].p
             value == items[k].v
         IN
         IF property = "@odata.id" /\ value.t = "str" /\ value.s = target
         THEN [found |-> TRUE, path |-> partial_path]
         ELSE IF property \in skipped_properties
         THEN ScanItems(target, items, k + 1, partial_path)
         ELSE IF value.t = "dict"
         THEN LET r == ScanItems(target, value.kids, 1, Append(partial_path, property)) IN
              IF r.found THEN r ELSE ScanItems(target, items, k + 1, DelLast(r.path))
         ELSE IF value.t = "list"
         THEN LET r == ScanArray(target, value.kids, 1, Append(partial_path, property)) IN
              IF r.found THEN r ELSE ScanItems(target, items, k + 1, DelLast(r.path))
         ELSE ScanItems(target, items, k + 1, partial_path)

scan_object(target, resource, partial_path) ==
    ScanItems(target, resource.kids, 1, partial_path)

(***************************************************************************)
(* build_reference_path( uri, response, path ), lines 142-174.             *)
(***************************************************************************)
\* Line 156: the Service Root test.
IsServiceRoot(target) == target = ServiceRoot \/ target = ServiceRootNoSlash

\* Faulty variant of SkipResource: the resource under test is not left out.
SkipResourceBrokenOnly(target, resource) ==
    Get(resource, "@odata.id").t = "null"

\* Lines 161-165: is the resource left out of the scan for this target?
SkipResource(target, resource) ==
    LET resource_uri == Get(resource, "@odata.id") IN
    resource_uri.t = "null" \/ (resource_uri.t = "str" /\ resource_uri.s = target)

\* Lines 160-171: the loop over response from index k on; the index of the
\* first resource in which scan_object finds the target and the
\* partial_path it built there, index 0 when the loop runs to its end.
RECURSIVE FindContainer(_, _, _)
FindContainer(target, resp, k) ==
    IF k > Len(resp) THEN [idx |-> 0, partial |-> <<>>]
    ELSE IF SkipResource(target, resp[k]) THEN FindContainer(target, resp, k + 1)
    ELSE LET r == scan_object(target, resp[k], <<>>) IN
         IF r.found THEN [idx |-> k, partial |-> r.path]
         ELSE FindContainer(target, resp, k + 1)

\* Faulty variant of NextPath: the partial path is put behind the path.
NextPathAppended(partial_path, oldpath) == oldpath \o partial_path

\* Line 171: the path handed to the next frame.
NextPath(partial_path, oldpath) == partial_path \o oldpath

\* The whole recursion.  d is the number of frames already on the stack;
\* a call that would exceed RecursionLimit raises RecursionError
\* (ok = FALSE), which nothing in run_test catches.
RECURSIVE build_reference_path(_, _, _, _)
build_reference_path(target, resp, oldpath, d) ==
    IF IsServiceRoot(target) THEN [ok |-> TRUE, path |-> oldpath]
    ELSE LET c == FindContainer(target, resp, 1) IN
         IF c.idx = 0 THEN [ok |-> TRUE, path |-> oldpath]
         ELSE IF d >= RecursionLimit THEN [ok |-> FALSE, path |-> <<>>]
         ELSE build_reference_path(Get(resp[c.idx], "@odata.id").s, resp,
                                   NextPath(c.partial, oldpath), d + 1)

(***************************************************************************)
(* run_test, lines 81-140.                                                 *)
(***************************************************************************)
\* Lines 81-86.
EmptyResults ==
    [URIs |-> <<>>, Orphans |-> <<>>, TotalPass |-> 0, TotalFail |-> 0, TotalWarn |-> 0]

\* Lines 88-89: serv_uri is None.
IsOrphan(item) == Get(item, "@odata.id").t = "null"
ServUri(item) == Get(item, "@odata.id").s

\* Faulty variant of AddOrphan: the orphan is inserted at the front.
AddOrphanAtFront(res, item) ==
    [res EXCEPT !.Orphans = <<item>> \o @, !.TotalFail = @ + 1]

\* Lines 90-91.
AddOrphan(res, item) ==
    [res EXCEPT !.Orphans = Append(@, item), !.TotalFail = @ + 1]

\* Lines 111-114: skip_test.
skip_list == {"@Redfish.Settings", "@Redfish.ActionInfo", "@Redfish.CollectionCapabilities"}
InPath(name, ref_path) == \E k \in 1..Len(ref_path) : ref_path[k] = name
SkipTest(ref_path) == \E skip_prop \in skip_list : InPath(skip_prop, ref_path)

\* Faulty variant of OemResource: only the last hop of the path is looked at.
OemIsLastHop(ref_path) ==
    Len(ref_path) > 0 /\ ref_path[Len(ref_path)] = "Oem"

\* Lines 118-120: oem_resource.
OemResource(ref_path) == InPath("Oem", ref_path)

\* results["URIs"][serv_uri] = entry
SetEntry(uris, serv_uri, entry) ==
    [u \in DOMAIN uris \cup {serv_uri} |-> IF u = serv_uri THEN entry ELSE uris[u]]

\* Lines 123-135.
Record(res, serv_uri, matched, oem_resource) ==
    IF matched
    THEN [res EXCEPT !.URIs = SetEntry(@, serv_uri, [Result |-> "Pass", Details |-> PassStr]),
                     !.TotalPass = @ + 1]
    ELSE IF oem_resource
    THEN [res EXCEPT !.URIs = SetEntry(@, serv_uri,
                                 [Result |-> "Warning",
                                  Details |-> OemPrefix \o serv_uri \o DetailsSuffix]),
                     !.TotalWarn = @ + 1]
    ELSE [res EXCEPT !.URIs = SetEntry(@, serv_uri,
                                 [Result |-> "Fail",
                                  Details |-> FailPrefix \o serv_uri \o DetailsSuffix]),
                     !.TotalFail = @ + 1]

\* Faulty variant of Classify: the Oem test comes before the skip test.
ClassifyOemFirst(res, serv_uri, ref_path) ==
    IF OemResource(ref_path) THEN Record(res, serv_uri, FALSE, TRUE)
    ELSE IF SkipTest(ref_path) THEN res
    ELSE Record(res, serv_uri, FALSE, FALSE)

\* Faulty variant of Classify: a skipped resource is still counted as a failure.
ClassifySkipCounted(res, serv_uri, ref_path) ==
    IF SkipTest(ref_path) THEN [res EXCEPT !.TotalFail = @ + 1]
    ELSE Record(res, serv_uri, FALSE, OemResource(ref_path))

\* Lines 110-135 for an unmatched identifier whose reference path is ref_path.
Classify(res, serv_uri, ref_path) ==
    IF SkipTest(ref_path) THEN res
    ELSE Record(res, serv_uri, FALSE, OemResource(ref_path))

\* Faulty variant of ProcessItem: path_match is not reset for each item, so
\* once an item has matched every later item counts as matched.
ProcessItemStickyMatch(res, item, resp, pathSeq) ==
    IF IsOrphan(item) THEN [ok |-> TRUE, res |-> AddOrphan(res, item)]
    ELSE IF res.TotalPass > 0 \/ path_match(ServUri(item), pathSeq)
    THEN [ok |-> TRUE, res |-> Record(res, ServUri(item), TRUE, FALSE)]
    ELSE LET ref == build_reference_path(ServUri(item), resp, <<>>, 0) IN
         IF ref.ok THEN [ok |-> TRUE, res |-> Classify(res, ServUri(item), ref.path)]
         ELSE [ok |-> FALSE, res |-> res]

\* The whole body of the for loop (lines 88-135) for one item, as a function
\* of the results so far; ok = FALSE when build_reference_path overflows.
ProcessItem(res, item, resp, pathSeq) ==
    IF IsOrphan(item) THEN [ok |-> TRUE, res |-> AddOrphan(res, item)]
    ELSE IF path_match(ServUri(item), pathSeq)
    THEN [ok |-> TRUE, res |-> Record(res, ServUri(item), TRUE, FALSE)]
    ELSE LET ref == build_reference_path(ServUri(item), resp, <<>>, 0) IN
         IF ref.ok THEN [ok |-> TRUE, res |-> Classify(res, ServUri(item), ref.path)]
         ELSE [ok |-> FALSE, res |-> res]

\* run_test on a whole collection (lines 81-140), from item k on.
RECURSIVE RunFrom(_, _, _, _)
RunFrom(res, resp, pathSeq, k) ==
    IF k > Len(resp) THEN [ok |-> TRUE, res |-> res]
    ELSE LET r == ProcessItem(res, resp[k], resp, pathSeq) IN
         IF r.ok THEN RunFrom(r.res, resp, pathSeq, k + 1) ELSE r

RunTest(resp, pathSeq) == RunFrom(EmptyResults, resp, pathSeq, 1)

(***************************************************************************)
(* The inputs explored: collections of up to MaxLen resources drawn from   *)
(* ResourcePool, and the path sets of PathSets.                            *)
(***************************************************************************)
\* the Service Root: holds the chassis, an action-info reference to B and,
\* under Links, a reference to T
ResRoot ==
    Dict(<<KV("@odata.id", Str(ServiceRoot)),
           KV("Links", Ref(IdT)),
           KV("Chassis", Ref(IdA)),
           KV("Actions", Dict(<<KV("@Redfish.ActionInfo", Ref(IdB))>>))>>)

\* A: holds T under Oem/Acme, and B only under Oem/Links
ResA ==
    Dict(<<KV("@odata.id", Str(IdA)),
           KV("Status", Dict(<<KV("State", Str(<<"O","K">>))>>)),
           KV("Oem", Dict(<<KV("Links", Ref(IdB)), KV("Acme", Ref(IdT))>>))>>)

\* a second payload with the identifier of A: holds B
ResA2 ==
    Dict(<<KV("@odata.id", Str(IdA)),
           KV("Actions", Ref(IdB))>>)

\* B: holds A inside an array under a collection-capabilities annotation,
\* and T under a settings annotation
ResB ==
    Dict(<<KV("@odata.id", Str(IdB)),
           KV("@Redfish.CollectionCapabilities",
              Dict(<<KV("Capabilities", List(<<Str(<<"x">>), Ref(IdT \o <<"2">>), Ref(IdA)>>))>>)),
           KV("@Redfish.Settings", Dict(<<KV("SettingsObject", Ref(IdT))>>))>>)

\* T: refers to itself under Oem and to the Service Root
ResT ==
    Dict(<<KV("@odata.id", Str(IdT)),
           KV("Oem", Ref(IdT)),
           KV("Members", List(<<Ref(ServiceRoot)>>))>>)

\* the Service Root without the trailing slash: holds B and T in an array
\* under Oem
ResRootNoSlash ==
    Dict(<<KV("@odata.id", Str(ServiceRootNoSlash)),
           KV("RelatedItem", List(<<Ref(IdA)>>)),
           KV("Oem", Dict(<<KV("Members", List(<<Ref(IdB), Ref(IdT)>>))>>))>>)

\* a payload without @odata.id that refers to T
ResOrphan ==
    Dict(<<KV("Name", Str(<<"x">>)),
           KV("Oem", Ref(IdT))>>)

\* a payload whose @odata.id is null
ResNullId ==
    Dict(<<KV("@odata.id", Null),
           KV("Oem", Ref(IdA))>>)

ResourcePool == {ResRoot, ResA, ResA2, ResB, ResT, ResRootNoSlash, ResOrphan, ResNullId}

Collections == UNION {[1..n -> ResourcePool] : n \in 0..MaxLen}

PathSets == {<<>>, <<TplRoot>>, <<TplRoot, TplId>>}

(***************************************************************************)
(* The validation run as a state machine.                                  *)
(***************************************************************************)
Init ==
    /\ response \in Collections
    /\ paths \in PathSets
    /\ pc = "loop"
    /\ i = 1
    /\ results = EmptyResults
    /\ uri = <<>>
    /\ path = <<>>
    /\ depth = 0
    /\ calls = 0
    /\ tpl = <<>>
    /\ ident = <<>>
    /\ mres = "none"

\* Lines 88-92: the item has no @odata.id.
OrphanItem ==
    /\ pc = "loop" /\ i <= Len(response)
    /\ IsOrphan(response[i])
    /\ results' = AddOrphan(results, response[i])
    /\ i' = i + 1
    /\ UNCHANGED <<response, paths, pc, uri, path, depth, calls, tpl, ident, mres>>

\* Faulty variant of MatchedItem: the exception markers are looked for
\* before the match is taken into account.
MatchedItemSkipChecked ==
    /\ pc = "loop" /\ i <= Len(response)
    /\ ~IsOrphan(response[i])
    /\ path_match(ServUri(response[i]), paths)
    /\ results' = IF SkipTest(build_reference_path(ServUri(response[i]), response, <<>>, 0).path)
                  THEN results
                  ELSE Record(results, ServUri(response[i]), TRUE, FALSE)
    /\ i' = i + 1
    /\ UNCHANGED <<response, paths, pc, uri, path, depth, calls, tpl, ident, mres>>

\* Lines 94-104 and 122-127: a path object matches the identifier.
MatchedItem ==
    /\ pc = "loop" /\ i <= Len(response)
    /\ ~IsOrphan(response[i])
    /\ path_match(ServUri(response[i]), paths)
    /\ results' = Record(results, ServUri(response[i]), TRUE, FALSE)
    /\ i' = i + 1
    /\ UNCHANGED <<response, paths, pc, uri, path, depth, calls, tpl, ident, mres>>

\* Lines 107-108: no match; run_test calls build_reference_path( serv_uri, response, [] ).
UnmatchedItem ==
    /\ pc = "loop" /\ i <= Len(response)
    /\ ~IsOrphan(response[i])
    /\ ~path_match(ServUri(response[i]), paths)
    /\ pc' = "resolve"
    /\ uri' = ServUri(response[i])
    /\ path' = <<>>
    /\ depth' = 0
    /\ calls' = calls + 1
    /\ UNCHANGED <<response, paths, i, results, tpl, ident, mres>>

\* Lines 160-171: a resource holds the target; recurse on its identifier.
ResolveHop ==
    /\ pc = "resolve"
    /\ ~IsServiceRoot(uri)
    /\ LET c == FindContainer(uri, response, 1) IN
         /\ c.idx # 0
         /\ depth < RecursionLimit
         /\ uri' = Get(response[c.idx], "@odata.id").s
         /\ path' = NextPath(c.partial, path)
         /\ depth' = depth + 1
    /\ UNCHANGED <<response, paths, pc, i, results, calls, tpl, ident, mres>>

\* Line 171 with the stack exhausted: RecursionError leaves run_test.
ResolveOverflow ==
    /\ pc = "resolve"
    /\ ~IsServiceRoot(uri)
    /\ FindContainer(uri, response, 1).idx # 0
    /\ depth >= RecursionLimit
    /\ pc' = "overflow"
    /\ UNCHANGED <<response, paths, i, results, uri, path, depth, calls, tpl, ident, mres>>

\* Lines 156-157 and 174: the recursion returns path.
ResolveReturn ==
    /\ pc = "resolve"
    /\ IsServiceRoot(uri) \/ FindContainer(uri, response, 1).idx = 0
    /\ pc' = "classify"
    /\ UNCHANGED <<response, paths, i, results, uri, path, depth, calls, tpl, ident, mres>>

\* Lines 110-135 with ref_path = path.
ClassifyItem ==
    /\ pc = "classify"
    /\ results' = Classify(results, ServUri(response[i]), path)
    /\ i' = i + 1
    /\ pc' = "loop"
    /\ UNCHANGED <<response, paths, uri, path, depth, calls, tpl, ident, mres>>

\* Lines 137-140: the loop is over; results is returned.
Finish ==
    /\ pc = "loop" /\ i > Len(response)
    /\ pc' = "done"
    /\ UNCHANGED <<response, paths, i, results, uri, path, depth, calls, tpl, ident, mres>>

Next ==
    \/ OrphanItem
    \/ MatchedItem
    \/ UnmatchedItem
    \/ ResolveHop
    \/ ResolveOverflow
    \/ ResolveReturn
    \/ ClassifyItem
    \/ Finish

Spec == Init /\ [][Next]_vars

\* The stepwise run and the function RunTest agree.
StepwiseAgrees ==
    /\ pc = "done" => RunTest(response, paths) = [ok |-> TRUE, res |-> results]
    /\ pc = "overflow" => ~RunTest(response, paths).ok

(***************************************************************************)
(* Vocabulary of the properties.                                           *)
(***************************************************************************)
Range(seq) == {seq[k] : k \in DOMAIN seq}

\* the resource has an identifier: an @odata.id item holding a string
HasIdentifier(resource) ==
    \E k \in DOMAIN resource.kids :
        resource.kids[k].p = "@odata.id" /\ resource.kids[k].v.t = "str"

\* some template of the Path Set matches the identifier
SomeTemplateMatches(id) == \E t \in Range(paths) : UriPatternMatches(t, id)

\* the resource at index k has an identifier that no template matches
Unmatched(k) ==
    HasIdentifier(response[k]) /\ ~SomeTemplateMatches(ServUri(response[k]))

\* the reachability path of the identifier of the resource at index k
RefPath(k) == build_reference_path(ServUri(response[k]), response, <<>>, 0).path

HasMarker(ref_path) ==
    \/ "@Redfish.Settings" \in Range(ref_path)
    \/ "@Redfish.ActionInfo" \in Range(ref_path)
    \/ "@Redfish.CollectionCapabilities" \in Range(ref_path)

HasOem(ref_path) == "Oem" \in Range(ref_path)

\* the run is about to process the item at index i
AtItem == pc = "loop" /\ i <= Len(response)

\* needle occurs in hay as a contiguous substring
Contains(hay, needle) ==
    \E o \in 0..(Len(hay) - Len(needle)) : SubSeq(hay, o + 1, o + Len(needle)) = needle

\* number of indices in 1..n that satisfy Skipped
RECURSIVE CountSkipped(_)
CountSkipped(n) ==
    IF n = 0 THEN 0
    ELSE CountSkipped(n - 1) + (IF Unmatched(n) /\ HasMarker(RefPath(n)) THEN 1 ELSE 0)

Total == results.TotalPass + results.TotalFail + results.TotalWarn

(***************************************************************************)
(* C1: a resource whose identifier is matched by a template is recorded as *)
(* Result "Pass", Details "Pass"; TotalPass grows by exactly 1, TotalFail  *)
(* and TotalWarn do not change, and build_reference_path is not called for *)
(* it, whatever else the collection holds.                                 *)
(***************************************************************************)
C1_MatchedIsPass ==
    [][ (AtItem /\ HasIdentifier(response[i]) /\ SomeTemplateMatches(ServUri(response[i])))
        => /\ ServUri(response[i]) \in DOMAIN results'.URIs
           /\ results'.URIs[ServUri(response[i])] = [Result |-> "Pass", Details |-> PassStr]
           /\ results'.TotalPass = results.TotalPass + 1
           /\ results'.TotalFail = results.TotalFail
           /\ results'.TotalWarn = results.TotalWarn
           /\ calls' = calls
           /\ pc' = "loop" /\ i' = i + 1
      ]_vars

\* a matched resource was recorded as Pass although other resources refer to
\* it under Oem and under an exception marker
C1_Witness ==
    /\ pc = "done"
    /\ \E k \in DOMAIN response :
         /\ HasIdentifier(response[k]) /\ SomeTemplateMatches(ServUri(response[k]))
         /\ HasMarker(RefPath(k)) /\ HasOem(RefPath(k))
         /\ results.URIs[ServUri(response[k])].Result = "Pass"
         /\ results.TotalPass = 2

(***************************************************************************)
(* C2: an unmatched identifier whose reachability path holds one of the    *)
(* three exception markers, at any position, is not recorded: classifying  *)
(* it changes neither the result map nor a counter, and at the end of the  *)
(* run it is no key of the result map; also when the path holds "Oem".     *)
(***************************************************************************)
C2_MarkerIsSkipped ==
    /\ [](pc = "done" =>
            \A k \in DOMAIN response :
                (Unmatched(k) /\ HasMarker(RefPath(k)))
                    => ServUri(response[k]) \notin DOMAIN results.URIs)
    /\ [][ (pc = "classify" /\ HasMarker(RefPath(i)))
           => (results' = results /\ pc' = "loop" /\ i' = i + 1) ]_vars

\* a run ended in which a resource with both a marker and "Oem" on its path
\* was left out
C2_Witness ==
    /\ pc = "done"
    /\ \E k \in DOMAIN response :
         /\ Unmatched(k) /\ HasMarker(RefPath(k)) /\ HasOem(RefPath(k))
         /\ ServUri(response[k]) \notin DOMAIN results.URIs
         /\ Total < Len(response)

(***************************************************************************)
(* C3: an unmatched identifier whose reachability path holds "Oem" and no  *)
(* exception marker is recorded as "Warning" with Details that contain the *)
(* identifier, TotalWarn grows by exactly 1 and the other counters do not  *)
(* change; with neither "Oem" nor a marker it is recorded as "Fail" and    *)
(* TotalFail grows by 1; and only such Oem resources are ever recorded as  *)
(* "Warning".                                                              *)
(***************************************************************************)
C3_OemIsWarning ==
    /\ [][ (pc = "classify" /\ ~HasMarker(RefPath(i)))
           => LET id == ServUri(response[i]) IN
              /\ id \in DOMAIN results'.URIs
              /\ Contains(results'.URIs[id].Details, id)
              /\ results'.TotalPass = results.TotalPass
              /\ IF HasOem(RefPath(i))
                 THEN /\ results'.URIs[id].Result = "Warning"
                      /\ results'.TotalWarn = results.TotalWarn + 1
                      /\ results'.TotalFail = results.TotalFail
                 ELSE /\ results'.URIs[id].Result = "Fail"
                      /\ results'.TotalFail = results.TotalFail + 1
                      /\ results'.TotalWarn = results.TotalWarn
         ]_vars
    /\ [](\A id \in DOMAIN results.URIs :
              results.URIs[id].Result = "Warning"
                  => \E k \in 1..(i - 1) :
                        /\ Unmatched(k) /\ ServUri(response[k]) = id
                        /\ HasOem(RefPath(k)) /\ ~HasMarker(RefPath(k)))

\* a run ended with a Warning for a resource whose "Oem" is not the last
\* hop of its path, and with a Fail for another unmatched resource
C3_Witness ==
    /\ pc = "done"
    /\ \E k \in DOMAIN response :
         /\ Unmatched(k) /\ HasOem(RefPath(k)) /\ ~HasMarker(RefPath(k))
         /\ RefPath(k)[Len(RefPath(k))] # "Oem"
         /\ results.URIs[ServUri(response[k])].Result = "Warning"
    /\ \E id \in DOMAIN results.URIs : results.URIs[id].Result = "Fail"
    /\ results.TotalWarn > 0

(***************************************************************************)
(* C4: a resource without an identifier is appended unchanged to Orphans,  *)
(* TotalFail grows by exactly 1, the result map gets no entry and neither  *)
(* the matcher nor the resolver runs for it; at the end of the run Orphans *)
(* is exactly the subsequence of the identifier-less resources of the      *)
(* collection, in their order.                                             *)
(***************************************************************************)
IdentifierLess(resource) == ~HasIdentifier(resource)

C4_OrphansInOrder ==
    /\ [][ (AtItem /\ IdentifierLess(response[i]))
           => /\ results'.Orphans = Append(results.Orphans, response[i])
              /\ results'.TotalFail = results.TotalFail + 1
              /\ results'.TotalPass = results.TotalPass
              /\ results'.TotalWarn = results.TotalWarn
              /\ results'.URIs = results.URIs
              /\ calls' = calls /\ pc' = "loop" /\ i' = i + 1
         ]_vars
    /\ [](pc = "done" => results.Orphans = SelectSeq(response, IdentifierLess))

\* a run ended with two different orphans around a resource with an identifier
C4_Witness ==
    /\ pc = "done"
    /\ Len(results.Orphans) = 2
    /\ results.Orphans[1] # results.Orphans[2]
    /\ HasIdentifier(response[2])
    /\ results.TotalFail >= 2

(***************************************************************************)
(* C5 as stated: at the end of the run the three counters sum to the size  *)
(* of the collection.                                                      *)
(***************************************************************************)
C5_TotalsSumToCollection ==
    pc = "done" => Total = Len(response)

(***************************************************************************)
(* C5 amended: the three counters sum to the size of the collection less   *)
(* the number of resources left out because of an exception marker; this   *)
(* holds after every item of the loop.                                     *)
(***************************************************************************)
C5_TotalsSumToClassified ==
    /\ pc = "loop" => Total = (i - 1) - CountSkipped(i - 1)
    /\ pc = "done" => Total = Len(response) - CountSkipped(Len(response))

\* a run ended with an orphan, a recorded resource and a skipped one
C5_Witness ==
    /\ pc = "done"
    /\ Len(results.Orphans) > 0
    /\ results.TotalPass > 0
    /\ CountSkipped(Len(response)) > 0
    /\ Total = Len(response) - CountSkipped(Len(response))

(***************************************************************************)
(* Embedded references, as a relation: the property-name chains that lead  *)
(* from a mapping down to a nested mapping whose @odata.id is the target.  *)
(* With through = {} no chain passes a skip-listed property; with          *)
(* through = skipped_names every chain is taken.                           *)
(***************************************************************************)
skipped_names == {"Links", "PoweredBy", "CooledBy", "RelatedItem", "OriginOfCondition",
                  "MaintenanceWindowResource", "RedundancySet", "OriginResources"}

RECURSIVE Chains(_, _, _)
Chains(target, obj, through) ==
    (IF \E k \in DOMAIN obj.kids :
            obj.kids[k].p = "@odata.id" /\ obj.kids[k].v = Str(target)
     THEN {<<>>} ELSE {})
    \cup UNION {
        IF obj.kids[k].p \in skipped_names \ through THEN {}
        ELSE IF obj.kids[k].v.t = "dict"
        THEN {<<obj.kids[k].p>> \o c : c \in Chains(target, obj.kids[k].v, through)}
        ELSE IF obj.kids[k].v.t = "list"
        THEN UNION {
                 IF e.v.t = "dict"
                 THEN {<<obj.kids[k].p>> \o c : c \in Chains(target, e.v, through)}
                 ELSE {} : e \in Range(obj.kids[k].v.kids)}
        ELSE {}
        : k \in DOMAIN obj.kids}

\* the chains to references embedded in a resource (its own top-level
\* @odata.id is no embedded reference)
Embedded(target, resource, through) == Chains(target, resource, through) \ {<<>>}

\* the resources of resp in which the target is found: those with an
\* identifier other than the target that embed a reference to it outside
\* the skip-listed properties
Containers(target, resp) ==
    {k \in DOMAIN resp :
        /\ HasIdentifier(resp[k])
        /\ ServUri(resp[k]) # target
        /\ Embedded(target, resp[k], {}) # {}}

Min(S) == CHOOSE m \in S : \A n \in S : m <= n

Identifiers(resp) == {ServUri(resp[k]) : k \in {n \in DOMAIN resp : HasIdentifier(resp[n])}}

(***************************************************************************)
(* Reorderings of the collection.                                          *)
(***************************************************************************)
Orderings(n) == {f \in [1..n -> 1..n] : \A a, b \in 1..n : f[a] = f[b] => a = b}
Permute(resp, f) == [k \in 1..Len(resp) |-> resp[f[k]]]
Occurrences(seq, x) == Cardinality({k \in DOMAIN seq : seq[k] = x})
SameUpToOrder(s1, s2) ==
    /\ Len(s1) = Len(s2)
    /\ \A x \in Range(s1) \cup Range(s2) : Occurrences(s1, x) = Occurrences(s2, x)

SameAggregate(r1, r2) ==
    /\ r1.TotalPass = r2.TotalPass
    /\ r1.TotalFail = r2.TotalFail
    /\ r1.TotalWarn = r2.TotalWarn
    /\ DOMAIN r1.URIs = DOMAIN r2.URIs
    /\ \A id \in DOMAIN r1.URIs : r1.URIs[id] = r2.URIs[id]

PassEntries(r) == {id \in DOMAIN r.URIs : r.URIs[id].Result = "Pass"}

SamePasses(r1, r2) ==
    /\ r1.TotalPass = r2.TotalPass
    /\ PassEntries(r1) = PassEntries(r2)
    /\ \A id \in DOMAIN r1.URIs :
           SomeTemplateMatches(id) => (id \in DOMAIN r2.URIs /\ r1.URIs[id] = r2.URIs[id])
    /\ SameUpToOrder(r1.Orphans, r2.Orphans)

\* every identifier of the collection is found in at most one resource
UniqueContainers(resp) ==
    \A id \in Identifiers(resp) : Cardinality(Containers(id, resp)) <= 1

(***************************************************************************)
(* C6 as stated: any two orderings of the same resources on which run_test *)
(* completes give the same TotalPass, TotalFail, TotalWarn and the same    *)
(* identifier-to-verdict map.                                              *)
(***************************************************************************)
C6_OrderIndependent ==
    pc = "done" =>
        LET this == RunTest(response, paths) IN
        \A f \in Orderings(Len(response)) :
            LET other == RunTest(Permute(response, f), paths) IN
            other.ok => SameAggregate(this.res, other.res)

(***************************************************************************)
(* C6 amended: any two orderings on which run_test completes give the same *)
(* TotalPass, the same entries for the identifiers a template matches and  *)
(* the same orphans up to order; and when every identifier is found in at  *)
(* most one resource, every ordering completes with the same three totals  *)
(* and the same identifier-to-verdict map.                                 *)
(***************************************************************************)
C6_OrderIndependentPasses ==
    pc = "done" =>
        LET this == RunTest(response, paths)
            unique == UniqueContainers(response)
        IN
        \A f \in Orderings(Len(response)) :
            LET other == RunTest(Permute(response, f), paths) IN
            /\ other.ok => SamePasses(this.res, other.res)
            /\ unique => (other.ok /\ SameAggregate(this.res, other.res))

\* a run of three different resources ended with matched, unmatched and
\* orphaned resources, each identifier found in at most one resource and
\* some identifier recorded as Warning
C6_Witness ==
    /\ pc = "done"
    /\ results = RunTest(response, paths).res
    /\ Len(response) = 3
    /\ Cardinality(Range(response)) = 3
    /\ UniqueContainers(response)
    /\ results.TotalPass > 0
    /\ results.TotalWarn > 0

(***************************************************************************)
(* Matcher runs: one template against one identifier.  The templates are   *)
(* those of Templates; the identifiers are every string of up to MaxIdLen  *)
(* characters of IdAlphabet, and the three identifiers of the Chassis      *)
(* example.                                                                *)
(***************************************************************************)
Templates ==
    { <<"/","a","/","{","x","}">>,
      <<"/","{","x","}","/","b">>,
      <<"/","a","/">>,
      <<"/","a",".","b">>,
      <<"/","{","x","}">>,
      <<"/","a","/","{","x","}","/">>,
      <<"{","x","}","/","{","y","}">> }

IdAlphabet == {"/", "a", "b", "."}

GeneratedIds == UNION {[1..n -> IdAlphabet] : n \in 0..MaxIdLen}

MatchCases ==
    (Templates \X GeneratedIds)
    \cup ({TplChassis} \X {IdChassis1, IdThermal, IdChassisSlash})

InitMatch ==
    /\ \E c \in MatchCases : tpl = c[1] /\ ident = c[2]
    /\ mres = "none"
    /\ pc = "match"
    /\ response = <<>>
    /\ paths = <<>>
    /\ i = 1
    /\ results = EmptyResults
    /\ uri = <<>>
    /\ path = <<>>
    /\ depth = 0
    /\ calls = 0

\* Lines 100-101 for one template: build uri_pattern and re.match it.
MatchTemplate ==
    /\ pc = "match"
    /\ mres' = UriPatternMatches(tpl, ident)
    /\ pc' = "matched"
    /\ UNCHANGED <<response, paths, i, results, uri, path, depth, calls, tpl, ident>>

\* Lines 98-104 for the Path Set holding the template and the Service Root
\* template, in both iteration orders.
MatchPathSet ==
    /\ pc = "matched"
    /\ paths = <<>>
    /\ paths' \in {<<tpl, TplRoot>>, <<TplRoot, tpl>>}
    /\ mres' = path_match(ident, paths')
    /\ UNCHANGED <<response, pc, i, results, uri, path, depth, calls, tpl, ident>>

NextMatch == MatchTemplate \/ MatchPathSet

SpecMatch == InitMatch /\ [][NextMatch]_vars

\* the slash-separated segments of a string
RECURSIVE SplitFrom(_, _, _)
SplitFrom(str, k, cur) ==
    IF k > Len(str) THEN <<cur>>
    ELSE IF str[k] = "/" THEN <<cur>> \o SplitFrom(str, k + 1, <<>>)
    ELSE SplitFrom(str, k + 1, Append(cur, str[k]))

Segments(str) == SplitFrom(str, 1, <<>>)

\* a segment of the form {Name}
IsPlaceholder(seg) ==
    /\ Len(seg) >= 3
    /\ seg[1] = "{" /\ seg[Len(seg)] = "}"
    /\ \A k \in 2..(Len(seg) - 1) : seg[k] \in Alnum

\* anchored, segment-exact matching
SegmentExact(template, id) ==
    LET ts == Segments(template)
        is == Segments(id)
    IN /\ Len(ts) = Len(is)
       /\ \A k \in DOMAIN ts :
              IF IsPlaceholder(ts[k]) THEN is[k] # <<>> ELSE is[k] = ts[k]

(***************************************************************************)
(* C7 as stated: a template matches an identifier exactly when the match   *)
(* is segment-exact, so the Chassis template matches /redfish/v1/Chassis/1 *)
(* and neither /redfish/v1/Chassis/1/Thermal nor /redfish/v1/Chassis/; and *)
(* the result for a Path Set does not depend on the order of its templates.*)
(***************************************************************************)
C7_SegmentExactMatch ==
    /\ (pc = "matched" /\ paths = <<>>) => (mres = SegmentExact(tpl, ident))
    /\ (pc = "matched" /\ paths # <<>>) =>
           (mres = (SegmentExact(tpl, ident) \/ SegmentExact(TplRoot, ident)))

\* The parts of C7 that hold of the code: the three Chassis examples, and
\* the independence of the iteration order of the Path Set.
MatcherExamples ==
    /\ (pc = "matched" /\ paths = <<>> /\ tpl = TplChassis) => (mres = (ident = IdChassis1))
    /\ (pc = "matched" /\ paths # <<>>) =>
           (mres = (UriPatternMatches(tpl, ident) \/ UriPatternMatches(TplRoot, ident)))

(***************************************************************************)
(* C8: scan_object never descends into a skip-listed property, at any      *)
(* depth, so no skip-listed name is ever part of a reachability path; and  *)
(* an unmatched identifier all of whose embedded references lie beneath a  *)
(* skip-listed property has the empty path and is recorded as Fail, also   *)
(* when the skip-listed property lies beneath "Oem" or a marker.           *)
(***************************************************************************)
TargetIds == {ServiceRoot, ServiceRootNoSlash, IdA, IdB, IdT, IdT \o <<"2">>}

\* every reference to the target embedded in a resource of the collection
\* lies beneath a skip-listed property
OnlyBeneathSkipped(target) ==
    \A k \in DOMAIN response :
        \A c \in Embedded(target, response[k], skipped_names) :
            Range(c) \cap skipped_names # {}

C8_SkipListedNeverOnPath ==
    /\ [](\A k \in DOMAIN response : \A t \in TargetIds :
             LET r == scan_object(t, response[k], <<>>) IN
             /\ Range(r.path) \cap skipped_names = {}
             /\ r.found <=> Chains(t, response[k], {}) # {})
    /\ [](pc \in {"resolve", "classify"} => Range(path) \cap skipped_names = {})
    /\ [][ (pc = "classify" /\ OnlyBeneathSkipped(ServUri(response[i])))
           => /\ path = <<>>
              /\ ServUri(response[i]) \in DOMAIN results'.URIs
              /\ results'.URIs[ServUri(response[i])].Result = "Fail"
              /\ results'.TotalFail = results.TotalFail + 1
              /\ results'.TotalWarn = results.TotalWarn
         ]_vars

\* a run ended with a Fail for an unmatched identifier that is referred to
\* only beneath Links, the Links lying beneath Oem
C8_Witness ==
    /\ pc = "done"
    /\ \E k \in DOMAIN response :
         /\ Unmatched(k)
         /\ OnlyBeneathSkipped(ServUri(response[k]))
         /\ \E n \in DOMAIN response :
              \E c \in Embedded(ServUri(response[k]), response[n], skipped_names) :
                  /\ HasIdentifier(response[n])
                  /\ c[1] = "Oem" /\ c[2] = "Links"
         /\ results.URIs[ServUri(response[k])].Result = "Fail"

(***************************************************************************)
(* C9: each hop of build_reference_path takes the first resource in        *)
(* collection order, orphans and the resource of the target itself left    *)
(* out, that embeds a reference to the target; puts the property chain     *)
(* from the top of that resource down to the reference in front of the     *)
(* path so far; and goes on with that resource's identifier.  It returns   *)
(* the path so far when the target is "/redfish/v1/" or "/redfish/v1" or   *)
(* when no resource embeds a reference.  A scan_object that returns False  *)
(* leaves the path list as it was on entry.                                *)
(***************************************************************************)
EntryPaths == {<<>>, <<"Members">>, <<"Oem", "Links">>}

C9_RootFirstChain ==
    /\ [][ pc = "resolve"
           => IF uri \in {ServiceRoot, ServiceRootNoSlash} \/ Containers(uri, response) = {}
              THEN pc' = "classify" /\ path' = path /\ path' = RefPath(i)
              ELSE \/ pc' = "overflow"
                   \/ /\ pc' = "resolve"
                      /\ uri' = ServUri(response[Min(Containers(uri, response))])
                      /\ \E c \in Embedded(uri, response[Min(Containers(uri, response))], {}) :
                             path' = c \o path
         ]_vars
    /\ [](\A k \in DOMAIN response : \A t \in TargetIds : \A entry \in EntryPaths :
             LET r == scan_object(t, response[k], entry) IN
             IF r.found
             THEN \E c \in Chains(t, response[k], {}) : r.path = entry \o c
             ELSE r.path = entry)

\* the resolver went from T over A to the Service Root and returns the
\* root-first path; the scan of A backed out of Status before it found T
C9_Witness ==
    /\ pc = "classify"
    /\ uri = ServiceRoot
    /\ depth = 2
    /\ path = <<"Chassis", "Oem", "Acme">>
    /\ ServUri(response[i]) = IdT

(***************************************************************************)
(* C10: build_reference_path has no cycle guard.  When the chain of        *)
(* first-found containers that starts at the target comes back to an       *)
(* identifier it has visited, the recursion never returns and the run      *)
(* never completes; when the chain never repeats an identifier, the        *)
(* recursion is at most as deep as the collection has identifiers and      *)
(* returns.                                                                *)
(***************************************************************************)
\* the identifier the resolver goes on with after target, <<>> when it stops
NextTarget(target) ==
    IF target \in {ServiceRoot, ServiceRootNoSlash} \/ Containers(target, response) = {}
    THEN <<>>
    ELSE ServUri(response[Min(Containers(target, response))])

\* the chain of targets from target, n hops long at most
RECURSIVE ChainOfTargets(_, _)
ChainOfTargets(target, n) ==
    IF n = 0 \/ NextTarget(target) = <<>> THEN <<target>>
    ELSE <<target>> \o ChainOfTargets(NextTarget(target), n - 1)

ChainRepeats(target) ==
    LET chain == ChainOfTargets(target, Len(response) + 1) IN
    \E a, b \in DOMAIN chain : a < b /\ chain[a] = chain[b]

C10_NoCycleGuard ==
    /\ [](pc = "overflow" => ChainRepeats(ServUri(response[i])))
    /\ []((pc = "resolve" /\ ~ChainRepeats(ServUri(response[i])))
             => depth < Cardinality(Identifiers(response)))
    /\ [][ (pc = "resolve" /\ ChainRepeats(ServUri(response[i]))) => pc' # "classify" ]_vars
    /\ [][ (pc = "resolve" /\ ~ChainRepeats(ServUri(response[i]))) => pc' # "overflow" ]_vars
    /\ [][ pc = "overflow" => pc' = "overflow" ]_vars

\* two resources, neither the Service Root, each embedding a reference to
\* the other: the recursion for the first of them has run out of stack
C10_Witness ==
    /\ pc = "overflow"
    /\ Len(response) = 2
    /\ i = 1
    /\ \A k \in {1, 2} : HasIdentifier(response[k]) /\ ~IsServiceRoot(ServUri(response[k]))
    /\ ServUri(response[1]) # ServUri(response[2])
    /\ Containers(ServUri(response[1]), response) = {2}
    /\ Containers(ServUri(response[2]), response) = {1}

====
